---- MODULE Spec2Model ----
(***************************************************************************)
(* Multi-backend reconciliation of HCS_App: SyncService.run, the three     *)
(* storage backends, ComparisonService and the File / FileLocation         *)
(* repositories, as a state machine over a small world of backend files.   *)
(***************************************************************************)
EXTENDS Integers, Sequences, FiniteSets, TLC

(* ------------------------------ bounds --------------------------------- *)
\* number of POST /sync requests served in one behaviour
MaxRuns == 2
\* number of changes made to the files held by the backends
MaxChanges == 3
\* number of injected I/O, classifier and store failures
MaxFaults == 2
\* LocalStorageBackend.get_file_hash BLOCK_SIZE (4 MiB), scaled to bytes of the model
BLOCK_SIZE == 2
\* length of the longest file whose hashing is checked
MaxDataLen == 4

(* --------------------------- option values ----------------------------- *)
\* Python None and present values, as sequences of length 0 and 1
None == << >>
Some(v) == << v >>

(* ------------------------------ the world ------------------------------ *)
\* self.backends, in construction order; the names are type(backend).__name__
Backends == << "LocalStorageBackend", "DropboxStorageBackend", "FTPSStorageBackend" >>

\* file contents (byte strings) that a backend may hold
Contents == { << 1 >>, << 2 >> }

\* paths, as the components of the path string; Dropbox reports path_lower
PathsOf(b) ==
    IF b = "LocalStorageBackend"
    THEN { << "HCS", "a.txt" >>, << "HCS", "b.txt" >>, << "HCS", "sub", "c.txt" >> }
    ELSE IF b = "DropboxStorageBackend"
    THEN { << "", "hcs", "a.txt" >>, << "", "hcs", "sub", "c.txt" >> }
    ELSE { << "HCS", "a.txt" >>, << "HCS", "sub", "c.txt" >> }

\* the folder handed to list_files: base_folder, "/" + base_folder for Dropbox
RootOf(b) == IF b = "DropboxStorageBackend" THEN << "", "hcs" >> ELSE << "HCS" >>

Slots == { s \in [backend : { Backends[i] : i \in 1..3 },
                  path : UNION { PathsOf(Backends[i]) : i \in 1..3 }] :
           s.path \in PathsOf(s.backend) }

Slot(b, p) == [backend |-> b, path |-> p]

\* os.path.basename(path)
basename(path) == path[Len(path)]

\* path.encode(): the bytes of the path string, components joined by "/"
CompBytes(c) ==
    IF c = "HCS" THEN << 72, 67, 83 >>
    ELSE IF c = "hcs" THEN << 104, 99, 115 >>
    ELSE IF c = "a.txt" THEN << 97, 46, 116, 120, 116 >>
    ELSE IF c = "b.txt" THEN << 98, 46, 116, 120, 116 >>
    ELSE IF c = "c.txt" THEN << 99, 46, 116, 120, 116 >>
    ELSE IF c = "sub" THEN << 115, 117, 98 >>
    ELSE << >>

RECURSIVE encode(_)
encode(path) ==
    IF Len(path) = 0 THEN << >>
    ELSE IF Len(path) = 1 THEN CompBytes(path[1])
    ELSE CompBytes(path[1]) \o << 47 >> \o encode(Tail(path))

(* ------------------------------ hashing -------------------------------- *)
\* hashlib.sha256(data).digest(): an injective image of the data
sha256(data) == << 256, Len(data) >> \o data

\* .hexdigest(): the hex rendering of a digest
hexdigest(d) == << 16 >> \o d

Min(a, b) == IF a < b THEN a ELSE b

\* the read loop of get_file_hash: one digest per BLOCK_SIZE chunk, joined
RECURSIVE chunk_hashes(_)
chunk_hashes(data) ==
    IF Len(data) = 0 THEN << >>
    ELSE sha256(SubSeq(data, 1, Min(BLOCK_SIZE, Len(data))))
         \o chunk_hashes(SubSeq(data, Min(BLOCK_SIZE, Len(data)) + 1, Len(data)))

\* as LocalGetFileHash, with a loop that hashes a chunk before testing it
LocalGetFileHash_dowhile(data) ==
    hexdigest(sha256(IF Len(data) = 0 THEN sha256(<< >>) ELSE chunk_hashes(data)))

LocalGetFileHash(data) == hexdigest(sha256(chunk_hashes(data)))

\* as FTPSGetFileHash, with one SHA-256 over the raw bytes
FTPSGetFileHash_flat(data) == hexdigest(sha256(data))

FTPSGetFileHash(data) == hexdigest(sha256(chunk_hashes(data)))

\* metadata.content_hash as the Dropbox service computes it (4 MiB blocks)
DropboxContentHash(data) == hexdigest(sha256(chunk_hashes(data)))

get_file_hash(b, data) ==
    IF b = "LocalStorageBackend" THEN LocalGetFileHash(data)
    ELSE IF b = "FTPSStorageBackend" THEN FTPSGetFileHash(data)
    ELSE DropboxContentHash(data)

\* as PseudoHash, hashing the file name instead of the whole path
PseudoHash_name(path) == hexdigest(sha256(encode(<< basename(path) >>)))

\* hashlib.sha256(path.encode()).hexdigest(), the fallback of _collect_entries
PseudoHash(path) == hexdigest(sha256(encode(path)))

\* as uuid5, derived from the first characters of the name only
uuid5_prefix(file_hash) == << 5 >> \o SubSeq(file_hash, 1, 4)

\* str(uuid.uuid5(uuid.NAMESPACE_OID, file_hash))
uuid5(file_hash) == << 5 >> \o file_hash

(* ------------------------- ComparisonService --------------------------- *)
\* as setdefault_append, inserting the entry at the front of its group
setdefault_append_front(groups, e) ==
    IF \E i \in 1..Len(groups) : groups[i].file_hash = e.file_hash
    THEN [i \in 1..Len(groups) |->
            IF groups[i].file_hash = e.file_hash
            THEN [groups[i] EXCEPT !.items = << e >> \o @]
            ELSE groups[i]]
    ELSE Append(groups, [file_hash |-> e.file_hash, items |-> << e >>])

\* groups.setdefault(e['file_hash'], []).append(e); a dict keeps insertion order
setdefault_append(groups, e) ==
    IF \E i \in 1..Len(groups) : groups[i].file_hash = e.file_hash
    THEN [i \in 1..Len(groups) |->
            IF groups[i].file_hash = e.file_hash
            THEN [groups[i] EXCEPT !.items = Append(@, e)]
            ELSE groups[i]]
    ELSE Append(groups, [file_hash |-> e.file_hash, items |-> << e >>])

RECURSIVE group_fold(_, _)
group_fold(groups, es) ==
    IF es = << >> THEN groups
    ELSE group_fold(setdefault_append(groups, Head(es)), Tail(es))

\* as group_by_hash, iterating the entries from the last to the first
group_by_hash_rev(es) == group_fold(<< >>, [i \in 1..Len(es) |-> es[Len(es) + 1 - i]])

group_by_hash(es) == group_fold(<< >>, es)

Max(a, b) == IF a > b THEN a ELSE b

\* as compute_backup_counts, with 1 as the floor of max
compute_backup_counts_floor(groups) ==
    [h \in { groups[i].file_hash : i \in 1..Len(groups) } |->
        LET g == CHOOSE i \in 1..Len(groups) : groups[i].file_hash = h
        IN  Max(Len(groups[g].items) - 1, 1)]

\* as compute_backup_counts, counting every copy (the first one included)
compute_backup_counts_all(groups) ==
    [h \in { groups[i].file_hash : i \in 1..Len(groups) } |->
        LET g == CHOOSE i \in 1..Len(groups) : groups[i].file_hash = h
        IN  Len(groups[g].items)]

\* {h: max(len(v) - 1, 0) for h, v in groups.items()}
compute_backup_counts(groups) ==
    [h \in { groups[i].file_hash : i \in 1..Len(groups) } |->
        LET g == CHOOSE i \in 1..Len(groups) : groups[i].file_hash = h
        IN  Max(Len(groups[g].items) - 1, 0)]

(* ------------------------ ClassificationService ------------------------ *)
\* file names that the classifier's keyword and extension rules match
SensitiveNames == { "b.txt" }

\* MixedClassifier.classify(file_path)
classify(path) ==
    IF basename(path) \in SensitiveNames THEN "SENSITIVE" ELSE "INSENSITIVE"

(* ------------------------------- state --------------------------------- *)
\* request handlers (threads of the server) that can serve POST /sync
Procs == { 1, 2 }

VARIABLES
    world,      \* [Slots -> option of content]: the files the backends hold
    changes,    \* number of changes made to world
    faults,     \* number of failures injected
    clock,      \* datetime.now(): advances with every run started
    files,      \* committed rows of table files
    locs,       \* committed rows of table file_locations
    locSeq,     \* the autoincrement sequence of file_locations.id
    pc,         \* per handler: position in sync() / SyncService.run
    bi,         \* per handler: index in self.backends of the backend scanned
    paths,      \* per handler: listing of that backend not yet iterated
    entries,    \* per handler: the list built by _collect_entries
    obs,        \* per handler: outcome of stat and hash for each entry
    unreach,    \* per handler: backends whose list_files raised
    groups,     \* per handler: the dict of group_by_hash, in insertion order
    gi,         \* per handler: number of groups already written to the session
    pendFiles,  \* per handler: File objects added to db.session, uncommitted
    pendLocs,   \* per handler: FileLocation objects added, uncommitted
    result,     \* per handler: value returned by run(); size of the GET /files answer
    failedAt,   \* per handler: where the exception that ended the run was raised
    snapFiles,  \* per handler: table files when the request arrived
    snapLocs,   \* per handler: table file_locations when the request arrived
    prevScan,   \* per handler: what its previous request scanned, if it ended well
    classified, \* per handler: the calls its run made to classifier.classify
    prevListing,\* per handler: the listings of its previous request, if it ended well
    req         \* per handler: the route of the request it serves, or served last

store == << files, locs, locSeq >>
env == << world, changes >>
scan == << bi, paths, entries, obs, unreach >>
session == << groups, gi, pendFiles, pendLocs >>
snap == << snapFiles, snapLocs, prevScan, classified, prevListing, req >>
vars == << world, changes, faults, clock, files, locs, locSeq, pc, bi, paths,
           entries, obs, unreach, groups, gi, pendFiles, pendLocs, result,
           failedAt, snapFiles, snapLocs, prevScan, classified, prevListing,
           req >>

Active(p) == pc[p] \notin { "idle" }

\* the state after db.create_all(): empty tables, no request being served
InitRest ==
    /\ changes = 0
    /\ faults = 0
    /\ clock = 0
    /\ files = {}
    /\ locs = {}
    /\ locSeq = 0
    /\ pc = [p \in Procs |-> "idle"]
    /\ bi = [p \in Procs |-> 1]
    /\ paths = [p \in Procs |-> << >>]
    /\ entries = [p \in Procs |-> << >>]
    /\ obs = [p \in Procs |-> << >>]
    /\ unreach = [p \in Procs |-> {}]
    /\ groups = [p \in Procs |-> << >>]
    /\ gi = [p \in Procs |-> 0]
    /\ pendFiles = [p \in Procs |-> << >>]
    /\ pendLocs = [p \in Procs |-> << >>]
    /\ result = [p \in Procs |-> None]
    /\ failedAt = [p \in Procs |-> "none"]
    /\ snapFiles = [p \in Procs |-> {}]
    /\ snapLocs = [p \in Procs |-> {}]
    /\ prevScan = [p \in Procs |-> None]
    /\ classified = [p \in Procs |-> << >>]
    /\ prevListing = [p \in Procs |-> None]
    /\ req = [p \in Procs |-> "/sync"]

\* the backends hold no file yet
Init ==
    /\ world = [s \in Slots |-> None]
    /\ InitRest

(* ---------------------------- environment ------------------------------ *)
\* a file directly in the folder is created, rewritten or removed on one
\* backend, between requests
ChangeBackend ==
    /\ \A p \in Procs : pc[p] = "idle"
    /\ changes < MaxChanges
    /\ \E s \in Slots, v \in { None } \cup { Some(c) : c \in Contents } :
        /\ Len(s.path) = Len(RootOf(s.backend)) + 1
        /\ v # world[s]
        /\ world' = [world EXCEPT ![s] = v]
    /\ changes' = changes + 1
    /\ UNCHANGED << faults, clock, store, pc, scan, session, result, failedAt, snap >>

(* ------------------------- sync(): POST /sync -------------------------- *)
\* the request arrives at the controller
Start(p) ==
    /\ pc[p] = "idle"
    /\ clock < MaxRuns
    /\ clock' = clock + 1
    /\ pc' = [pc EXCEPT ![p] = "construct"]
    /\ snapFiles' = [snapFiles EXCEPT ![p] = files]
    /\ snapLocs' = [snapLocs EXCEPT ![p] = locs]
    /\ req' = [req EXCEPT ![p] = "/sync"]
    /\ UNCHANGED << env, faults, store, scan, session, result, failedAt, prevScan,
                    classified, prevListing >>

\* an exception leaves run(): the request ends and its session is discarded
Raise(p, at) ==
    /\ pc' = [pc EXCEPT ![p] = "failed"]
    /\ failedAt' = [failedAt EXCEPT ![p] = at]
    /\ pendFiles' = [pendFiles EXCEPT ![p] = << >>]
    /\ pendLocs' = [pendLocs EXCEPT ![p] = << >>]

\* SyncService(): FTPSStorageBackend.__init__ connects and logs in
Construct(p) ==
    /\ pc[p] = "construct"
    /\ \/ /\ pc' = [pc EXCEPT ![p] = "list"]
          /\ UNCHANGED << faults, failedAt, pendFiles, pendLocs >>
       \/ /\ faults < MaxFaults
          /\ faults' = faults + 1
          /\ Raise(p, "construct")
    /\ UNCHANGED << env, clock, store, scan, groups, gi, result, snap >>

(* ----------------------- _collect_entries ------------------------------ *)
\* the paths of the files backend b holds
Present(b) == { q \in PathsOf(b) : world[Slot(b, q)] # None }

\* the entries directly in the folder of backend b: its files, and its
\* subfolders (those that hold a file)
DirectFiles(b) == { q \in Present(b) : Len(q) = Len(RootOf(b)) + 1 }

DirectFolders(b) ==
    { SubSeq(q, 1, Len(RootOf(b)) + 1) : q \in { r \in Present(b) : Len(r) > Len(RootOf(b)) + 1 } }

\* backend.list_files(folder):
\*   Local    Path(folder).rglob("*") filtered by is_file()
\*   Dropbox  the FileMetadata entries of files_list_folder(folder)
\*   FTPS     ftp.nlst(folder): every name in the folder
list_files(b) ==
    IF b = "LocalStorageBackend" THEN Present(b)
    ELSE IF b = "DropboxStorageBackend" THEN DirectFiles(b)
    ELSE DirectFiles(b) \cup DirectFolders(b)

\* the orders in which a listing may return a set of paths
Orderings(S) ==
    { q \in [1..Cardinality(S) -> S] :
        \A i, j \in 1..Cardinality(S) : i # j => q[i] # q[j] }

\* as NextPc, leaving the loop over the backends after the first listing
\* that has nothing left to iterate
NextPc_early(i, rest) ==
    IF rest # << >> THEN "file" ELSE "group"

\* where the two for-loops go once backend i has `rest` left to iterate
NextPc(i, rest) ==
    IF rest # << >> THEN "file" ELSE IF i < Len(Backends) THEN "list" ELSE "group"

NextBi(i, rest) ==
    IF rest # << >> \/ i = Len(Backends) THEN i ELSE i + 1

\* as ListBackend, listing the same backend again when list_files raises
ListBackend_retry(p) ==
    /\ pc[p] = "list"
    /\ LET b == Backends[bi[p]] IN
       \/ \E q \in Orderings(list_files(b)) :
            /\ paths' = [paths EXCEPT ![p] = q]
            /\ pc' = [pc EXCEPT ![p] = NextPc(bi[p], q)]
            /\ bi' = [bi EXCEPT ![p] = NextBi(bi[p], q)]
            /\ UNCHANGED << faults, unreach >>
       \/ /\ b # "LocalStorageBackend"
          /\ faults < MaxFaults
          /\ faults' = faults + 1
          /\ paths' = [paths EXCEPT ![p] = << >>]
          /\ unreach' = [unreach EXCEPT ![p] = @ \cup { b }]
          /\ UNCHANGED << pc, bi >>
    /\ UNCHANGED << env, clock, store, entries, obs, session, result, failedAt, snap >>

\* paths = backend.list_files(...), or [] when it raises
ListBackend(p) ==
    /\ pc[p] = "list"
    /\ LET b == Backends[bi[p]] IN
       \/ \E q \in Orderings(list_files(b)) :
            /\ paths' = [paths EXCEPT ![p] = q]
            /\ pc' = [pc EXCEPT ![p] = NextPc(bi[p], q)]
            /\ bi' = [bi EXCEPT ![p] = NextBi(bi[p], q)]
            /\ UNCHANGED << faults, unreach >>
       \/ /\ b # "LocalStorageBackend"
          /\ faults < MaxFaults
          /\ faults' = faults + 1
          /\ paths' = [paths EXCEPT ![p] = << >>]
          /\ unreach' = [unreach EXCEPT ![p] = @ \cup { b }]
          /\ pc' = [pc EXCEPT ![p] = NextPc(bi[p], << >>)]
          /\ bi' = [bi EXCEPT ![p] = NextBi(bi[p], << >>)]
    /\ UNCHANGED << env, clock, store, entries, obs, session, result, failedAt, snap >>

\* the dicts get_file_metadata can return for a file holding data; the
\* modification time of every file is 0, before any reading of the clock
Metadata(b, data) ==
    IF b = "DropboxStorageBackend"
    THEN [size : { None, Some(Len(data)) }, modified : { None, Some(0) }]
    ELSE { [size |-> Some(Len(data)), modified |-> Some(0)] }

FullMetadata(data) == [size |-> Some(Len(data)), modified |-> Some(0)]

\* size = meta.get('size', 0): every backend's dict has the key
meta_size(meta) == meta.size

\* modified = meta.get('modified') or datetime.now()
meta_modified(meta, now) == IF meta.modified = None THEN now ELSE meta.modified[1]

\* the values get_file_hash can return, and the fallback when it raises
HashOutcomes(b) ==
    IF b = "DropboxStorageBackend" THEN { "ok", "raise", "none" } ELSE { "ok", "raise" }

file_hash_of(b, path, data, outcome) ==
    IF outcome = "ok" THEN Some(get_file_hash(b, data))
    ELSE IF outcome = "raise" THEN Some(PseudoHash(path))
    ELSE None

Cost(meta, data, outcome) ==
    (IF meta = FullMetadata(data) THEN 0 ELSE 1) + (IF outcome = "ok" THEN 0 ELSE 1)

\* one iteration of `for path in paths`
CollectFile(p) ==
    /\ pc[p] = "file"
    /\ LET b == Backends[bi[p]]
           path == Head(paths[p])
           rest == Tail(paths[p])
           data == world[Slot(b, path)][1]
       IN
       IF path \notin PathsOf(b)
       THEN \* a folder: ftp.size(remote_path) raises error_perm
            /\ Raise(p, "stat")
            /\ UNCHANGED << faults, bi, paths, entries, obs >>
       ELSE
       \/ \E meta \in Metadata(b, data), outcome \in HashOutcomes(b) :
            /\ faults + Cost(meta, data, outcome) <= MaxFaults
            /\ faults' = faults + Cost(meta, data, outcome)
            /\ entries' = [entries EXCEPT ![p] = Append(@,
                    [file_hash |-> file_hash_of(b, path, data, outcome),
                     path |-> path,
                     name |-> basename(path),
                     size |-> meta_size(meta),
                     last_modified |-> meta_modified(meta, clock),
                     backend |-> b])]
            /\ obs' = [obs EXCEPT ![p] = Append(@,
                    [stat |-> IF meta = FullMetadata(data) THEN "ok" ELSE "missing",
                     hash |-> outcome])]
            /\ paths' = [paths EXCEPT ![p] = rest]
            /\ pc' = [pc EXCEPT ![p] = NextPc(bi[p], rest)]
            /\ bi' = [bi EXCEPT ![p] = NextBi(bi[p], rest)]
            /\ UNCHANGED << failedAt, pendFiles, pendLocs >>
       \/ /\ faults < MaxFaults
          /\ faults' = faults + 1
          /\ Raise(p, "stat")
          /\ UNCHANGED << bi, paths, entries, obs >>
    /\ UNCHANGED << env, clock, store, unreach, groups, gi, result, snap >>

\* as Group, with the wipe of table files done before the grouping
Group_wipe(p) ==
    /\ pc[p] = "group"
    /\ req[p] = "/sync"
    /\ groups' = [groups EXCEPT ![p] = group_by_hash(entries[p])]
    /\ files' = {}
    /\ locs' = {}
    /\ pc' = [pc EXCEPT ![p] = "delFiles"]
    /\ UNCHANGED << env, faults, clock, locSeq, scan, gi, pendFiles, pendLocs,
                    result, failedAt, snap >>

\* groups = group_by_hash(entries); backups = compute_backup_counts(groups)
Group(p) ==
    /\ pc[p] = "group"
    /\ req[p] = "/sync"
    /\ groups' = [groups EXCEPT ![p] = group_by_hash(entries[p])]
    /\ pc' = [pc EXCEPT ![p] = "delFiles"]
    /\ UNCHANGED << env, faults, clock, store, scan, gi, pendFiles, pendLocs,
                    result, failedAt, snap >>

(* --------------------------- repositories ------------------------------ *)
\* the File row built by get_or_create(file_id, **kwargs)
FileRow(file_id, rep, sens, backup_count, now) ==
    [id |-> file_id,
     name |-> rep.name,
     path |-> rep.path,
     size |-> rep.size,
     last_modified |-> rep.last_modified,
     sensitivity |-> sens,
     backup_count |-> backup_count,
     updated_at |-> now]

\* FileLocation(file_id=file_id, location=location)
LocRow(file_id, location) == [file_id |-> file_id, location |-> location]

FileIds(rows) == { r.id : r \in rows }

Range(q) == { q[i] : i \in 1..Len(q) }

\* a flush of handler p's session succeeds: NOT NULL columns are set, no
\* primary key is inserted twice, every file_id refers to a row of files
FlushOK(p) ==
    /\ \A i \in 1..Len(pendFiles[p]) : pendFiles[p][i].size # None
    /\ \A i \in 1..Len(pendFiles[p]) : pendFiles[p][i].id \notin FileIds(files)
    /\ \A i \in 1..Len(pendLocs[p]) :
          pendLocs[p][i].file_id \in FileIds(files) \cup FileIds(Range(pendFiles[p]))

\* as FileRepository_delete_all, committing without having deleted
FileRepository_delete_all_noop(p) ==
    /\ pc[p] = "delFiles"
    /\ \/ /\ pc' = [pc EXCEPT ![p] = "delLocs"]
          /\ UNCHANGED << faults, failedAt, pendFiles, pendLocs >>
       \/ /\ faults < MaxFaults
          /\ faults' = faults + 1
          /\ Raise(p, "delFiles")
    /\ UNCHANGED << env, clock, store, scan, groups, gi, result, snap >>

\* as FileRepository_delete_all, on a database that does not apply
\* ON DELETE CASCADE: the file_locations rows stay
FileRepository_delete_all_nocascade(p) ==
    /\ pc[p] = "delFiles"
    /\ \/ /\ files' = {}
          /\ pc' = [pc EXCEPT ![p] = "delLocs"]
          /\ UNCHANGED << faults, failedAt, pendFiles, pendLocs, locs >>
       \/ /\ faults < MaxFaults
          /\ faults' = faults + 1
          /\ Raise(p, "delFiles")
          /\ UNCHANGED << files, locs >>
    /\ UNCHANGED << env, clock, locSeq, scan, groups, gi, result, snap >>

\* FileRepository.delete_all(): DELETE FROM files (file_locations rows go
\* with their file, ON DELETE CASCADE), then commit
FileRepository_delete_all(p) ==
    /\ pc[p] = "delFiles"
    /\ \/ /\ files' = {}
          /\ locs' = {}
          /\ pc' = [pc EXCEPT ![p] = "delLocs"]
          /\ UNCHANGED << faults, failedAt, pendFiles, pendLocs >>
       \/ /\ faults < MaxFaults
          /\ faults' = faults + 1
          /\ Raise(p, "delFiles")
          /\ UNCHANGED << files, locs >>
    /\ UNCHANGED << env, clock, locSeq, scan, groups, gi, result, snap >>

\* FileLocationRepository.delete_all(): DELETE FROM file_locations, then commit
FileLocationRepository_delete_all(p) ==
    /\ pc[p] = "delLocs"
    /\ \/ /\ locs' = {}
          /\ pc' = [pc EXCEPT ![p] = IF groups[p] = << >> THEN "commit" ELSE "loop"]
          /\ UNCHANGED << faults, failedAt, pendFiles, pendLocs >>
       \/ /\ faults < MaxFaults
          /\ faults' = faults + 1
          /\ Raise(p, "delLocs")
          /\ UNCHANGED locs
    /\ UNCHANGED << env, clock, files, locSeq, scan, groups, gi, result, snap >>

\* as group_locations, adding the backend of the representative only
group_locations_rep(file_id, items) ==
    << LocRow(file_id, items[1].backend) >>

\* the rows location_repo.add appends for the items of a group
group_locations(file_id, items) ==
    [i \in 1..Len(items) |-> LocRow(file_id, items[i].backend)]

\* as classify_calls, with one call per item of the group
classify_calls_each(g) ==
    [i \in 1..Len(g.items) |-> [file_hash |-> g.file_hash, path |-> g.items[i].path]]

\* the calls one iteration of the loop makes to classifier.classify: one,
\* with the path of the group's first item
classify_calls(g) ==
    << [file_hash |-> g.file_hash, path |-> g.items[1].path] >>

\* File.query.get(file_id) finds a row: in the session or committed
query_get(p, file_id) ==
    file_id \in FileIds(files) \cup FileIds(Range(pendFiles[p]))

\* as ProcessGroup, deriving the id from the hash and the representative's path
ProcessGroup_pathid(p) ==
    /\ pc[p] = "loop"
    /\ LET g == groups[p][gi[p] + 1]
           rep == g.items[1]
           backups == compute_backup_counts(groups[p])
       IN
       IF g.file_hash = None
       THEN /\ Raise(p, "uuid5")
            /\ UNCHANGED << faults, gi, classified >>
       ELSE
       \/ /\ faults < MaxFaults
          /\ faults' = faults + 1
          /\ Raise(p, "classify")
          /\ classified' = [classified EXCEPT ![p] = @ \o classify_calls(g)]
          /\ UNCHANGED gi
       \/ /\ ~ FlushOK(p)
          /\ Raise(p, "flush")
          /\ classified' = [classified EXCEPT ![p] = @ \o classify_calls(g)]
          /\ UNCHANGED << faults, gi >>
       \/ /\ FlushOK(p)
          /\ LET file_id == uuid5(g.file_hash[1] \o encode(rep.path))
                 sens == classify(rep.path)
             IN
             /\ pendFiles' = [pendFiles EXCEPT ![p] =
                    IF query_get(p, file_id) THEN @
                    ELSE Append(@, FileRow(file_id, rep, sens, backups[g.file_hash], clock))]
             /\ pendLocs' = [pendLocs EXCEPT ![p] = @ \o group_locations(file_id, g.items)]
          /\ gi' = [gi EXCEPT ![p] = @ + 1]
          /\ classified' = [classified EXCEPT ![p] = @ \o classify_calls(g)]
          /\ pc' = [pc EXCEPT ![p] = IF gi[p] + 1 = Len(groups[p]) THEN "commit" ELSE "loop"]
          /\ UNCHANGED << faults, failedAt >>
    /\ UNCHANGED << env, clock, store, scan, groups, result, snapFiles, snapLocs,
                    prevScan, prevListing, req >>

\* as ProcessGroup, where a raising classifier is caught and the file is
\* labelled INSENSITIVE
ProcessGroup_swallow(p) ==
    /\ pc[p] = "loop"
    /\ LET g == groups[p][gi[p] + 1]
           rep == g.items[1]
           backups == compute_backup_counts(groups[p])
       IN
       IF g.file_hash = None
       THEN /\ Raise(p, "uuid5")
            /\ UNCHANGED << faults, gi, classified >>
       ELSE
       \/ /\ ~ FlushOK(p)
          /\ Raise(p, "flush")
          /\ classified' = [classified EXCEPT ![p] = @ \o classify_calls(g)]
          /\ UNCHANGED << faults, gi >>
       \/ /\ FlushOK(p)
          /\ \E raised \in BOOLEAN :
             /\ raised => faults < MaxFaults
             /\ faults' = IF raised THEN faults + 1 ELSE faults
             /\ LET file_id == uuid5(g.file_hash[1])
                    sens == IF raised THEN "INSENSITIVE" ELSE classify(rep.path)
                IN
                /\ pendFiles' = [pendFiles EXCEPT ![p] =
                       IF query_get(p, file_id) THEN @
                       ELSE Append(@, FileRow(file_id, rep, sens, backups[g.file_hash], clock))]
                /\ pendLocs' = [pendLocs EXCEPT ![p] = @ \o group_locations(file_id, g.items)]
          /\ gi' = [gi EXCEPT ![p] = @ + 1]
          /\ classified' = [classified EXCEPT ![p] = @ \o classify_calls(g)]
          /\ pc' = [pc EXCEPT ![p] = IF gi[p] + 1 = Len(groups[p]) THEN "commit" ELSE "loop"]
          /\ UNCHANGED failedAt
    /\ UNCHANGED << env, clock, store, scan, groups, result, snapFiles, snapLocs,
                    prevScan, prevListing, req >>

\* as ProcessGroup, taking the last item of the group as the representative
ProcessGroup_last(p) ==
    /\ pc[p] = "loop"
    /\ LET g == groups[p][gi[p] + 1]
           rep == g.items[Len(g.items)]
           backups == compute_backup_counts(groups[p])
       IN
       IF g.file_hash = None
       THEN /\ Raise(p, "uuid5")
            /\ UNCHANGED << faults, gi, classified >>
       ELSE
       \/ /\ faults < MaxFaults
          /\ faults' = faults + 1
          /\ Raise(p, "classify")
          /\ classified' = [classified EXCEPT ![p] = @ \o classify_calls(g)]
          /\ UNCHANGED gi
       \/ /\ ~ FlushOK(p)
          /\ Raise(p, "flush")
          /\ classified' = [classified EXCEPT ![p] = @ \o classify_calls(g)]
          /\ UNCHANGED << faults, gi >>
       \/ /\ FlushOK(p)
          /\ LET file_id == uuid5(g.file_hash[1])
                 sens == classify(rep.path)
             IN
             /\ pendFiles' = [pendFiles EXCEPT ![p] =
                    IF query_get(p, file_id) THEN @
                    ELSE Append(@, FileRow(file_id, rep, sens, backups[g.file_hash], clock))]
             /\ pendLocs' = [pendLocs EXCEPT ![p] = @ \o group_locations(file_id, g.items)]
          /\ gi' = [gi EXCEPT ![p] = @ + 1]
          /\ classified' = [classified EXCEPT ![p] = @ \o classify_calls(g)]
          /\ pc' = [pc EXCEPT ![p] = IF gi[p] + 1 = Len(groups[p]) THEN "commit" ELSE "loop"]
          /\ UNCHANGED << faults, failedAt >>
    /\ UNCHANGED << env, clock, store, scan, groups, result, snapFiles, snapLocs,
                    prevScan, prevListing, req >>

\* one iteration of `for file_hash, items in groups.items()`
ProcessGroup(p) ==
    /\ pc[p] = "loop"
    /\ LET g == groups[p][gi[p] + 1]
           rep == g.items[1]
           backups == compute_backup_counts(groups[p])
       IN
       IF g.file_hash = None
       THEN \* uuid5(NAMESPACE_OID, None) raises TypeError
            /\ Raise(p, "uuid5")
            /\ UNCHANGED << faults, gi, classified >>
       ELSE
       \/ \* classify raises
          /\ faults < MaxFaults
          /\ faults' = faults + 1
          /\ Raise(p, "classify")
          /\ classified' = [classified EXCEPT ![p] = @ \o classify_calls(g)]
          /\ UNCHANGED gi
       \/ \* the autoflush before the SELECT of query.get raises
          /\ ~ FlushOK(p)
          /\ Raise(p, "flush")
          /\ classified' = [classified EXCEPT ![p] = @ \o classify_calls(g)]
          /\ UNCHANGED << faults, gi >>
       \/ /\ FlushOK(p)
          /\ LET file_id == uuid5(g.file_hash[1])
                 sens == classify(rep.path)
             IN
             /\ pendFiles' = [pendFiles EXCEPT ![p] =
                    IF query_get(p, file_id) THEN @
                    ELSE Append(@, FileRow(file_id, rep, sens, backups[g.file_hash], clock))]
             /\ pendLocs' = [pendLocs EXCEPT ![p] = @ \o group_locations(file_id, g.items)]
          /\ gi' = [gi EXCEPT ![p] = @ + 1]
          /\ classified' = [classified EXCEPT ![p] = @ \o classify_calls(g)]
          /\ pc' = [pc EXCEPT ![p] = IF gi[p] + 1 = Len(groups[p]) THEN "commit" ELSE "loop"]
          /\ UNCHANGED << faults, failedAt >>
    /\ UNCHANGED << env, clock, store, scan, groups, result, snapFiles, snapLocs,
                    prevScan, prevListing, req >>

\* the file_locations rows a commit inserts, numbered by the sequence
numbered(rows, seq) ==
    { [id |-> seq + i, file_id |-> rows[i].file_id, location |-> rows[i].location] :
        i \in 1..Len(rows) }

\* as Commit, returning the number of groups
Commit_groups(p) ==
    /\ pc[p] = "commit"
    /\ \/ /\ FlushOK(p)
          /\ files' = files \cup Range(pendFiles[p])
          /\ locs' = locs \cup numbered(pendLocs[p], locSeq)
          /\ locSeq' = locSeq + Len(pendLocs[p])
          /\ pendFiles' = [pendFiles EXCEPT ![p] = << >>]
          /\ pendLocs' = [pendLocs EXCEPT ![p] = << >>]
          /\ result' = [result EXCEPT ![p] = Some(Len(groups[p]))]
          /\ pc' = [pc EXCEPT ![p] = "done"]
          /\ UNCHANGED << faults, failedAt >>
       \/ /\ ~ FlushOK(p)
          /\ Raise(p, "commit")
          /\ UNCHANGED << faults, store, result >>
       \/ /\ FlushOK(p)
          /\ faults < MaxFaults
          /\ faults' = faults + 1
          /\ Raise(p, "commit")
          /\ UNCHANGED << store, result >>
    /\ UNCHANGED << env, clock, scan, groups, gi, snap >>

\* as Commit, where a failing commit has already written the files rows
Commit_partial(p) ==
    /\ pc[p] = "commit"
    /\ \/ /\ FlushOK(p)
          /\ files' = files \cup Range(pendFiles[p])
          /\ locs' = locs \cup numbered(pendLocs[p], locSeq)
          /\ locSeq' = locSeq + Len(pendLocs[p])
          /\ pendFiles' = [pendFiles EXCEPT ![p] = << >>]
          /\ pendLocs' = [pendLocs EXCEPT ![p] = << >>]
          /\ result' = [result EXCEPT ![p] = Some(Len(entries[p]))]
          /\ pc' = [pc EXCEPT ![p] = "done"]
          /\ UNCHANGED << faults, failedAt >>
       \/ /\ ~ FlushOK(p)
          /\ Raise(p, "commit")
          /\ UNCHANGED << faults, store, result >>
       \/ /\ FlushOK(p)
          /\ faults < MaxFaults
          /\ faults' = faults + 1
          /\ files' = files \cup Range(pendFiles[p])
          /\ Raise(p, "commit")
          /\ UNCHANGED << locs, locSeq, result >>
    /\ UNCHANGED << env, clock, scan, groups, gi, snap >>

\* FileRepository.commit() and `return len(entries)`
Commit(p) ==
    /\ pc[p] = "commit"
    /\ \/ /\ FlushOK(p)
          /\ files' = files \cup Range(pendFiles[p])
          /\ locs' = locs \cup numbered(pendLocs[p], locSeq)
          /\ locSeq' = locSeq + Len(pendLocs[p])
          /\ pendFiles' = [pendFiles EXCEPT ![p] = << >>]
          /\ pendLocs' = [pendLocs EXCEPT ![p] = << >>]
          /\ result' = [result EXCEPT ![p] = Some(Len(entries[p]))]
          /\ pc' = [pc EXCEPT ![p] = "done"]
          /\ UNCHANGED << faults, failedAt >>
       \/ /\ ~ FlushOK(p)
          /\ Raise(p, "commit")
          /\ UNCHANGED << faults, store, result >>
       \/ /\ FlushOK(p)
          /\ faults < MaxFaults
          /\ faults' = faults + 1
          /\ Raise(p, "commit")
          /\ UNCHANGED << store, result >>
    /\ UNCHANGED << env, clock, scan, groups, gi, snap >>

\* the paths handler p's run iterated, backend by backend, in the order the
\* listings returned them
Listing(p) ==
    [i \in 1..Len(entries[p]) |->
        [backend |-> entries[p][i].backend, path |-> entries[p][i].path]]

\* the response is sent (200 with files_processed, or 500); the handler is free
Return(p) ==
    /\ pc[p] \in { "done", "failed" }
    /\ pc' = [pc EXCEPT ![p] = "idle"]
    /\ bi' = [bi EXCEPT ![p] = 1]
    /\ paths' = [paths EXCEPT ![p] = << >>]
    /\ entries' = [entries EXCEPT ![p] = << >>]
    /\ obs' = [obs EXCEPT ![p] = << >>]
    /\ unreach' = [unreach EXCEPT ![p] = {}]
    /\ groups' = [groups EXCEPT ![p] = << >>]
    /\ gi' = [gi EXCEPT ![p] = 0]
    /\ pendFiles' = [pendFiles EXCEPT ![p] = << >>]
    /\ pendLocs' = [pendLocs EXCEPT ![p] = << >>]
    /\ result' = [result EXCEPT ![p] = None]
    /\ failedAt' = [failedAt EXCEPT ![p] = "none"]
    /\ snapFiles' = [snapFiles EXCEPT ![p] = {}]
    /\ snapLocs' = [snapLocs EXCEPT ![p] = {}]
    /\ prevScan' = [prevScan EXCEPT ![p] =
            IF pc[p] = "done" /\ req[p] = "/sync"
            THEN Some([world |-> world,
                       clean |-> /\ unreach[p] = {}
                                 /\ \A i \in 1..Len(obs[p]) : obs[p][i].hash = "ok"])
            ELSE None]
    /\ classified' = [classified EXCEPT ![p] = << >>]
    /\ prevListing' = [prevListing EXCEPT ![p] =
            IF pc[p] = "done" /\ req[p] = "/sync" THEN Some(Listing(p)) ELSE None]
    /\ UNCHANGED << env, faults, clock, store, req >>

\* the steps of a request that has been accepted
Step(p) ==
    \/ Construct(p)
    \/ ListBackend(p)
    \/ CollectFile(p)
    \/ Group(p)
    \/ FileRepository_delete_all(p)
    \/ FileLocationRepository_delete_all(p)
    \/ ProcessGroup(p)
    \/ Commit(p)
    \/ Return(p)

(* requests served one at a time by one handler *)
Next ==
    \/ ChangeBackend
    \/ Start(1)
    \/ \E p \in Procs : Step(p)

Spec == Init /\ [][Next]_vars

(* several handlers serve POST /sync at once (the server is threaded); the
   backends hold the same content under the same path on two of them *)
ConcWorld ==
    [s \in Slots |->
        IF s = Slot("LocalStorageBackend", << "HCS", "a.txt" >>) THEN Some(<< 1 >>)
        ELSE IF s = Slot("FTPSStorageBackend", << "HCS", "a.txt" >>) THEN Some(<< 1 >>)
        ELSE IF s = Slot("LocalStorageBackend", << "HCS", "b.txt" >>) THEN Some(<< 2 >>)
        ELSE None]

InitConc ==
    /\ world = ConcWorld
    /\ InitRest

NextConc ==
    \/ \E p \in Procs : Start(p)
    \/ \E p \in Procs : Step(p)

SpecConc == InitConc /\ [][NextConc]_vars

(* as SpecConc, where a handler that has accepted a request keeps running:
   the server's threads are scheduled, and every backend, classifier and
   database call returns or raises *)
SpecFair == SpecConc /\ \A p \in Procs : WF_vars(Step(p))

(* ------------------ GET /all-files and GET /files ---------------------- *)
\* all_files(): the request arrives; SyncService() and _collect_entries()
\* are the steps Construct, ListBackend and CollectFile
all_files(p) ==
    /\ pc[p] = "idle"
    /\ pc' = [pc EXCEPT ![p] = "construct"]
    /\ req' = [req EXCEPT ![p] = "/all-files"]
    /\ snapFiles' = [snapFiles EXCEPT ![p] = files]
    /\ snapLocs' = [snapLocs EXCEPT ![p] = locs]
    /\ UNCHANGED << env, faults, clock, store, scan, session, result, failedAt,
                    prevScan, classified, prevListing >>

\* as all_files_return, wiping the two tables before answering, as run()
\* does after collecting
all_files_return_wipe(p) ==
    /\ pc[p] = "group"
    /\ req[p] = "/all-files"
    /\ files' = {}
    /\ locs' = {}
    /\ pc' = [pc EXCEPT ![p] = "done"]
    /\ UNCHANGED << env, faults, clock, locSeq, scan, session, result, failedAt, snap >>

\* all_files(): _collect_entries() has returned; return jsonify(entries), 200
all_files_return(p) ==
    /\ pc[p] = "group"
    /\ req[p] = "/all-files"
    /\ pc' = [pc EXCEPT ![p] = "done"]
    /\ UNCHANGED << env, faults, clock, store, scan, session, result, failedAt, snap >>

\* the body list_files() of GET /files builds: one object per row of
\* File.query.all(), with the locations of f.locations
files_json ==
    { [id |-> f.id, name |-> f.name, path |-> f.path, size |-> f.size,
       last_modified |-> f.last_modified, sensitivity |-> f.sensitivity,
       backup_count |-> f.backup_count, updated_at |-> f.updated_at,
       locations |-> { [id |-> l.id, location |-> l.location] :
                          l \in { m \in locs : m.file_id = f.id } }] : f \in files }

\* list_files() of the controller: GET /files reads both tables and answers
GET_files(p) ==
    /\ pc[p] = "idle"
    /\ pc' = [pc EXCEPT ![p] = "done"]
    /\ req' = [req EXCEPT ![p] = "/files"]
    /\ snapFiles' = [snapFiles EXCEPT ![p] = files]
    /\ snapLocs' = [snapLocs EXCEPT ![p] = locs]
    /\ result' = [result EXCEPT ![p] = Some(Cardinality(files_json))]
    /\ UNCHANGED << env, faults, clock, store, scan, session, failedAt,
                    prevScan, classified, prevListing >>

(* one handler serves POST /sync while the other serves GET /all-files and
   GET /files, over the files of ConcWorld *)
NextRead ==
    \/ Start(1)
    \/ all_files(2)
    \/ all_files_return(2)
    \/ GET_files(2)
    \/ \E p \in Procs : Step(p)

SpecRead == InitConc /\ [][NextRead]_vars

(* the three backends hold the same bytes, of any length up to MaxDataLen,
   and requests are served one at a time *)
HashInputs == UNION { [1..n -> { 1, 2 }] : n \in 0..MaxDataLen }

InitHash ==
    /\ \E d \in HashInputs :
          world = [s \in Slots |-> IF basename(s.path) = "a.txt" THEN Some(d) ELSE None]
    /\ InitRest

NextHash ==
    \/ Start(1)
    \/ \E p \in Procs : Step(p)

SpecHash == InitHash /\ [][NextHash]_vars

(* the folders of the backends hold files directly and in a subfolder, and
   requests are served one at a time *)
InitList ==
    /\ world \in [Slots -> { None, Some(<< 1 >>) }]
    /\ \A s \in Slots : basename(s.path) = "b.txt" => world[s] = None
    /\ InitRest

NextList ==
    \/ Start(1)
    \/ \E p \in Procs : Step(p)

SpecList == InitList /\ [][NextList]_vars

(* ============================== claims ================================= *)
\* the slots that hold content c
Holders(c) == { s \in Slots : world[s] = Some(c) }

\* the committed file_locations rows of a file
LocsOf(file_id) == { l \in locs : l.file_id = file_id }

\* the committed files rows of content c
RowsOf(c) ==
    { f \in files : \E s \in Holders(c) : f.id = uuid5(get_file_hash(s.backend, c)) }

\* every backend was listed and every hash call returned the content hash
CleanScan(p) ==
    /\ unreach[p] = {}
    /\ \A i \in 1..Len(obs[p]) : obs[p][i].hash = "ok"

\* the identifiers of the hashes observed by handler p's run
ObservedIds(p) ==
    { uuid5(entries[p][i].file_hash[1]) :
        i \in { j \in 1..Len(entries[p]) : entries[p][j].file_hash # None } }

ObservedHashes(p) == { entries[p][i].file_hash : i \in 1..Len(entries[p]) }

\* C1: after a successful run, content held by exactly two backends is one
\* LogicalFile with backup_count 1 and two FileLocations naming those two
\* backends; content held once is one LogicalFile with backup_count 0 and
\* one FileLocation.
C1_TwoCopiesOneLogicalFile ==
    \A p \in Procs : (pc[p] = "done" /\ CleanScan(p)) =>
        \A c \in Contents :
            /\ (\E s, t \in Holders(c) : s.backend # t.backend /\ Holders(c) = { s, t }) =>
                  /\ Cardinality(RowsOf(c)) = 1
                  /\ \A f \in RowsOf(c) :
                        /\ f.backup_count = 1
                        /\ Cardinality(LocsOf(f.id)) = 2
                        /\ { l.location : l \in LocsOf(f.id) }
                              = { s.backend : s \in Holders(c) }
            /\ Cardinality(Holders(c)) = 1 =>
                  /\ Cardinality(RowsOf(c)) = 1
                  /\ \A f \in RowsOf(c) :
                        /\ f.backup_count = 0
                        /\ Cardinality(LocsOf(f.id)) = 1
                        /\ { l.location : l \in LocsOf(f.id) }
                              = { s.backend : s \in Holders(c) }

\* a run has ended well with one content on two backends under different
\* names and another content on the third backend only
C1_Witness ==
    /\ pc[1] = "done"
    /\ CleanScan(1)
    /\ world[Slot("LocalStorageBackend", << "HCS", "b.txt" >>)] = Some(<< 1 >>)
    /\ world[Slot("FTPSStorageBackend", << "HCS", "a.txt" >>)] = Some(<< 1 >>)
    /\ world[Slot("DropboxStorageBackend", << "", "hcs", "a.txt" >>)] = Some(<< 2 >>)
    /\ Cardinality(Holders(<< 1 >>)) = 2
    /\ Cardinality(files) = 2
    /\ Cardinality(locs) = 3

\* C2: after a successful run the committed LogicalFiles correspond one to
\* one to the distinct content hashes the run observed.
C2_OneFilePerHash ==
    \A p \in Procs : pc[p] = "done" =>
        /\ None \notin ObservedHashes(p)
        /\ FileIds(files) = ObservedIds(p)
        /\ Cardinality(files) = Cardinality(ObservedHashes(p))

\* a run has ended well after observing three files of two distinct hashes
C2_Witness ==
    /\ pc[1] = "done"
    /\ Len(entries[1]) = 3
    /\ Cardinality(ObservedHashes(1)) = 2
    /\ Cardinality(files) = 2

\* C3: a successful run replaces the snapshot: every committed row was
\* written by this run, for a hash this run observed; no row of the previous
\* snapshot remains.
C3_SnapshotReplaced ==
    \A p \in Procs : pc[p] = "done" =>
        /\ \A f \in files : f.id \in ObservedIds(p) /\ f.updated_at = clock
        /\ \A l \in locs : l.file_id \in ObservedIds(p)
        /\ locs \cap snapLocs[p] = {}
        /\ files \cap snapFiles[p] = {}

\* a second run has ended well, and a file of the previous snapshot is gone
\* while another one's content was observed again
C3_Witness ==
    /\ pc[1] = "done"
    /\ clock = 2
    /\ \E f \in snapFiles[1] : f.id \notin FileIds(files)
    /\ \E f \in snapFiles[1] : f.id \in FileIds(files)

\* the points of run() from the first delete_all on
WritePhase == { "delFiles", "delLocs", "uuid5", "classify", "flush", "commit" }

\* C4: when a step of the write phase fails, the committed state afterwards
\* is the whole previous snapshot or the empty inventory: never a mixture
\* of old and new rows, never a non-empty part of the new snapshot.
C4_NoPartialSnapshot ==
    \A p \in Procs : (pc[p] = "failed" /\ failedAt[p] \in WritePhase) =>
        \/ files = snapFiles[p] /\ locs = snapLocs[p]
        \/ files = {} /\ locs = {}

\* the final commit of a run over a non-empty snapshot has failed after rows
\* had been added to the session
C4_Witness ==
    /\ pc[1] = "failed"
    /\ failedAt[1] = "commit"
    /\ snapFiles[1] # {}
    /\ groups[1] # << >>
    /\ gi[1] = Len(groups[1])
    /\ files = {}

\* C5: the two delete_all and the reinserts are one atomic unit: while a run
\* is between its first delete_all and its final commit, the committed state
\* is still the complete previous snapshot (or already the complete new one,
\* when the run observed nothing).
C5_SingleAtomicUnit ==
    \A p \in Procs : pc[p] \in { "delLocs", "loop", "commit" } =>
        \/ files = snapFiles[p] /\ locs = snapLocs[p]
        \/ groups[p] = << >>

\* handler p's run has begun its delete_all and not yet made its final commit
InWrite(p) == pc[p] \in { "delLocs", "loop", "commit" }

\* C6: two runs never overlap: while one is between its first delete_all and
\* its final commit, no other run is in its own delete / insert / commit.
C6_RunsSerialized ==
    \A p, q \in Procs : p # q => ~ (InWrite(p) /\ InWrite(q))

\* the points of a run before FileRepository.delete_all has executed
PreDelete == { "construct", "list", "file", "group", "delFiles" }

\* C7: a run that is before its delete_all, or that failed there (backend
\* construction or stat raised), has changed no committed row and holds no
\* uncommitted one.
C7_AbortBeforeDeleteKeepsStore ==
    \A p \in Procs :
        (\/ pc[p] \in PreDelete
         \/ pc[p] = "failed" /\ failedAt[p] \in { "construct", "stat" }) =>
            /\ files = snapFiles[p]
            /\ locs = snapLocs[p]
            /\ pendFiles[p] = << >>
            /\ pendLocs[p] = << >>

\* a run over a non-empty snapshot has failed in stat after collecting a file
C7_Witness ==
    /\ pc[1] = "failed"
    /\ failedAt[1] = "stat"
    /\ Len(entries[1]) > 0
    /\ snapFiles[1] # {}
    /\ snapLocs[1] # {}
    /\ files = snapFiles[1]

\* the number of files held by the backends that handler p's run could list
ReachableCount(p) ==
    Cardinality({ s \in Slots : world[s] # None /\ s.backend \notin unreach[p] })

\* C8: a backend that cannot be reached (connect or listing fails) does not
\* fail the run; the run returns the number of files on the other backends.
C8_UnreachableBackendTolerated ==
    \A p \in Procs :
        /\ ~ (pc[p] = "failed" /\ failedAt[p] = "construct")
        /\ pc[p] = "done" => result[p] = Some(ReachableCount(p))

\* the groups of handler p that hold entry e
GroupOf(p, e) == { g \in 1..Len(groups[p]) : e \in Range(groups[p][g].items) }

\* the entries of handler p whose hash call raised for path
RaisedAt(p, path) ==
    { j \in 1..Len(entries[p]) : obs[p][j].hash = "raise" /\ entries[p][j].path = path }

\* C9: a file whose hash call raised is kept, under the pseudo-hash of its
\* path; a first run in which nothing else went wrong does not fail; the
\* file's group holds exactly the entries whose hash call raised for the
\* same path string, and they become one LogicalFile.
C9_HashFallback ==
    \A p \in Procs : \A i \in 1..Len(entries[p]) :
        obs[p][i].hash = "raise" =>
            LET e == entries[p][i] IN
            /\ e.file_hash = Some(PseudoHash(e.path))
            /\ (clock = 1 /\ faults = Cardinality({ j \in 1..Len(obs[p]) : obs[p][j].hash = "raise" }))
                  => pc[p] # "failed"
            /\ pc[p] \in { "delFiles", "delLocs", "loop", "commit", "done" } =>
                  /\ Cardinality(GroupOf(p, e)) = 1
                  /\ \A j \in 1..Len(entries[p]) :
                        (GroupOf(p, entries[p][j]) = GroupOf(p, e)) <=> (j \in RaisedAt(p, e.path))
            /\ pc[p] = "done" =>
                  \E f \in files :
                     /\ f.id = uuid5(PseudoHash(e.path))
                     /\ Cardinality(LocsOf(f.id)) = Cardinality(RaisedAt(p, e.path))

\* a run has ended well in which the hash call raised for the same path
\* string on two backends, while a third file with the same bytes was hashed
C9_Witness ==
    /\ pc[1] = "done"
    /\ Len(entries[1]) = 3
    /\ \E i, j \in 1..3 :
          /\ i # j
          /\ obs[1][i].hash = "raise" /\ obs[1][j].hash = "raise"
          /\ entries[1][i].path = entries[1][j].path
          /\ entries[1][i].backend # entries[1][j].backend
    /\ Cardinality(Holders(<< 1 >>)) = 3
    /\ Cardinality(files) = 2
    /\ \E f \in files : f.backup_count = 1 /\ Cardinality(LocsOf(f.id)) = 2

\* C10: whatever stat does, the run goes on and the observation has a size
\* and a modification time: 0 and the current time where stat gave none.
C10_StatFailureTolerated ==
    \A p \in Procs :
        /\ ~ (pc[p] = "failed" /\ failedAt[p] = "stat")
        /\ \A i \in 1..Len(entries[p]) :
              /\ entries[p][i].size # None
              /\ obs[p][i].stat = "missing" =>
                    \/ entries[p][i].size = Some(0)
                    \/ entries[p][i].last_modified = clock

\* C11: when the classifier raises for a representative, run() ends with
\* the error and returns no count, nothing of that run is committed, and no
\* committed LogicalFile ever carries a label other than the one the
\* classifier returns for its path.
C11_ClassifierFailureIsHard ==
    /\ \A p \in Procs : failedAt[p] = "classify" =>
          /\ pc[p] = "failed"
          /\ result[p] = None
          /\ files = {}
          /\ locs = {}
    /\ \A f \in files : f.sensitivity = classify(f.path)

\* the classifier has raised for the second group of a run over a non-empty
\* snapshot, after the first group had been added to the session
C11_Witness ==
    /\ pc[1] = "failed"
    /\ failedAt[1] = "classify"
    /\ gi[1] = 1
    /\ Len(groups[1]) = 2
    /\ snapFiles[1] # {}

\* the group of handler p's run that a committed file row stands for
GroupsOfRow(p, f) ==
    { g \in 1..Len(groups[p]) :
        groups[p][g].file_hash # None /\ uuid5(groups[p][g].file_hash[1]) = f.id }

\* C13: after a successful run every LogicalFile's backup_count is the size
\* of its hash group minus one, and is not negative.
C13_BackupCountIsGroupSizeMinusOne ==
    \A p \in Procs : pc[p] = "done" =>
        \A f \in files :
            /\ Cardinality(GroupsOfRow(p, f)) = 1
            /\ \A g \in GroupsOfRow(p, f) :
                  f.backup_count = Len(groups[p][g].items) - 1
            /\ f.backup_count >= 0

\* a run has ended well with a group of three observations
C13_Witness ==
    /\ pc[1] = "done"
    /\ Len(groups[1]) = 1
    /\ Len(groups[1][1].items) = 3
    /\ \E f \in files : f.backup_count = 2

\* the number of items of a group observed on backend b
CopiesOn(items, b) == Cardinality({ i \in 1..Len(items) : items[i].backend = b })

\* C14: after a successful run every LogicalFile has one FileLocation per
\* observation of its group: at least one, backup_count + 1 in all, and as
\* many naming each backend as the group has observations from it.
C14_OneLocationPerObservation ==
    \A p \in Procs : pc[p] = "done" =>
        \A f \in files :
            /\ Cardinality(LocsOf(f.id)) >= 1
            /\ Cardinality(LocsOf(f.id)) = f.backup_count + 1
            /\ \A g \in GroupsOfRow(p, f) : \A i \in 1..Len(Backends) :
                  Cardinality({ l \in LocsOf(f.id) : l.location = Backends[i] })
                     = CopiesOn(groups[p][g].items, Backends[i])

\* a run has ended well with a file observed twice on one backend and once
\* on another
C14_Witness ==
    /\ pc[1] = "done"
    /\ \E f \in files :
          /\ Cardinality(LocsOf(f.id)) = 3
          /\ Cardinality({ l \in LocsOf(f.id) : l.location = "LocalStorageBackend" }) = 2

\* the sum of the sizes of the groups gs
RECURSIVE SumSizes(_)
SumSizes(gs) ==
    IF gs = << >> THEN 0 ELSE Len(Head(gs).items) + SumSizes(Tail(gs))

\* C15: a successful run returns the number of observations it collected,
\* which is the sum of the group sizes and the number of FileLocations it
\* wrote.
C15_ReturnsObservationCount ==
    \A p \in Procs : pc[p] = "done" =>
        /\ result[p] = Some(Len(entries[p]))
        /\ SumSizes(groups[p]) = Len(entries[p])
        /\ Cardinality(locs) = Len(entries[p])

\* a run has returned 3 after writing two LogicalFiles
C15_Witness ==
    /\ pc[1] = "done"
    /\ result[1] = Some(3)
    /\ Cardinality(files) = 2
    /\ Cardinality(locs) = 3

\* C20: no delete_all has been executed while a group is still without its
\* label: once the first delete_all is done, every group has been classified.
C20_ClassifyBeforeDelete ==
    \A p \in Procs : pc[p] \in { "delLocs", "loop", "commit" } =>
        gi[p] = Len(groups[p])

\* the slots that hold a file
Filled == { s \in Slots : world[s] # None }

\* C12: the id of a LogicalFile depends on the content hash only, and a
\* successful run that follows a successful run over the same files (both
\* with every backend listed and every file hashed) ends with the same
\* LogicalFile ids and the same backup_count for each id.
C12_Idempotent ==
    \A p \in Procs : (pc[p] = "done" /\ CleanScan(p)) =>
        /\ FileIds(files) = { uuid5(get_file_hash(s.backend, world[s][1])) : s \in Filled }
        /\ prevScan[p] = Some([world |-> world, clean |-> TRUE]) =>
              /\ FileIds(files) = FileIds(snapFiles[p])
              /\ \A f \in files : \A g \in snapFiles[p] :
                    f.id = g.id => f.backup_count = g.backup_count

\* a second run over unchanged files has ended well, and its representative
\* of a LogicalFile is another observation than the first run's
C12_Witness ==
    /\ pc[1] = "done"
    /\ CleanScan(1)
    /\ prevScan[1] = Some([world |-> world, clean |-> TRUE])
    /\ \E f \in files : \E g \in snapFiles[1] :
          f.id = g.id /\ f.path # g.path /\ f.backup_count = 1

\* the bytes of the file that entry e of a scan was made from
DataOf(e) == world[Slot(e.backend, e.path)][1]

\* C16: the content hash depends on the bytes only: every backend returns
\* the same hash for the same bytes, and hashing unchanged files again in a
\* second run gives the same hashes (hence the same ids).
C16_HashBackendIndependent ==
    \A p \in Procs :
        /\ \A i, j \in 1..Len(entries[p]) :
              (obs[p][i].hash = "ok" /\ obs[p][j].hash = "ok"
                 /\ DataOf(entries[p][i]) = DataOf(entries[p][j])) =>
                    /\ entries[p][i].file_hash # None
                    /\ entries[p][i].file_hash = entries[p][j].file_hash
        /\ (pc[p] = "done" /\ CleanScan(p)
               /\ prevScan[p] = Some([world |-> world, clean |-> TRUE])) =>
              FileIds(files) = FileIds(snapFiles[p])

\* a second run has hashed the same bytes, longer than one block, through
\* the three backends and ended with the one LogicalFile of the first run
C16_Witness ==
    /\ pc[1] = "done"
    /\ CleanScan(1)
    /\ prevScan[1] = Some([world |-> world, clean |-> TRUE])
    /\ Len(entries[1]) = 3
    /\ \A i \in 1..3 : Len(DataOf(entries[1][i])) > BLOCK_SIZE
    /\ { entries[1][i].backend : i \in 1..3 } = { Backends[i] : i \in 1..3 }
    /\ Cardinality(files) = 1
    /\ FileIds(files) = FileIds(snapFiles[1])

\* C17: on every backend the hash of a zero-byte file is the SHA-256 of the
\* empty byte string, in hex.
C17_EmptyFileHash ==
    \A p \in Procs : \A i \in 1..Len(entries[p]) :
        (obs[p][i].hash = "ok" /\ DataOf(entries[p][i]) = << >>) =>
            entries[p][i].file_hash = Some(hexdigest(sha256(<< >>)))

\* a run has hashed a zero-byte file through each of the three backends
C17_Witness ==
    /\ pc[1] = "done"
    /\ CleanScan(1)
    /\ Len(entries[1]) = 3
    /\ \A i \in 1..3 : DataOf(entries[1][i]) = << >>
    /\ { entries[1][i].backend : i \in 1..3 } = { Backends[i] : i \in 1..3 }
    /\ \A f \in files : f.id = uuid5(hexdigest(sha256(<< >>)))
    /\ Cardinality(files) = 1

\* C18: every path a listing returns is a regular file held by the backend,
\* never a folder, so no observation is made for a folder.
C18_ListsOnlyFiles ==
    \A p \in Procs :
        /\ \A i \in 1..Len(paths[p]) : paths[p][i] \in Present(Backends[bi[p]])
        /\ \A i \in 1..Len(entries[p]) :
              entries[p][i].path \in Present(entries[p][i].backend)

\* C19: a listing returns every regular file at any depth under the folder:
\* when the scan is over and every backend was listed, each file held by a
\* backend has its observation, and the run returns their number.
C19_ListsEveryFile ==
    \A p \in Procs :
        (pc[p] \in { "group", "delFiles", "delLocs", "loop", "commit", "done" }
            /\ unreach[p] = {}) =>
            /\ \A s \in Filled : \E i \in 1..Len(entries[p]) :
                  entries[p][i].backend = s.backend /\ entries[p][i].path = s.path
            /\ pc[p] = "done" => result[p] = Some(Cardinality(Filled))

\* the scan of handler p's run is over: the loop over the backends has ended,
\* every backend was listed or found unreachable, and every path of every
\* listing has its observation, with its stat and hash outcome
ScanComplete(p) ==
    /\ bi[p] = Len(Backends)
    /\ paths[p] = << >>
    /\ Len(obs[p]) = Len(entries[p])
    /\ \A i \in 1..Len(Backends) : Backends[i] \notin unreach[p] =>
          \A q \in list_files(Backends[i]) : \E j \in 1..Len(entries[p]) :
              entries[p][j].backend = Backends[i] /\ entries[p][j].path = q

\* C21: while a run is still listing, stat-ing or hashing, it has classified
\* nothing, deleted nothing and holds no uncommitted row; once it groups,
\* deletes, classifies, inserts or commits, the scan of every backend is
\* over and its groups are the grouping of the complete list of observations.
C21_WriteAfterScan ==
    \A p \in Procs :
        /\ pc[p] \in { "construct", "list", "file", "group" } =>
              /\ gi[p] = 0
              /\ groups[p] = << >>
              /\ pendFiles[p] = << >>
              /\ pendLocs[p] = << >>
              /\ files = snapFiles[p]
              /\ locs = snapLocs[p]
        /\ (\/ pc[p] \in { "group", "delFiles", "delLocs", "loop", "commit", "done" }
            \/ pc[p] = "failed" /\ failedAt[p] \in WritePhase) =>
              ScanComplete(p)
        /\ pc[p] \in { "delFiles", "delLocs", "loop", "commit", "done" } =>
              groups[p] = group_by_hash(entries[p])

\* a run over a non-empty snapshot has classified its first group, after
\* observing a file on each of the three backends
C21_Witness ==
    /\ pc[1] = "loop"
    /\ gi[1] = 1
    /\ snapFiles[1] # {}
    /\ unreach[1] = {}
    /\ { entries[1][i].backend : i \in 1..Len(entries[1]) } = { Backends[i] : i \in 1..3 }

\* the files rows of handler p's run: in its session until the commit
RunRows(p) == IF pc[p] = "done" THEN files ELSE Range(pendFiles[p])

\* C22: every LogicalFile a run writes carries the name, path, size and
\* modification time of the first observation of its hash in collection
\* order, and the label the classifier gives for that observation's path.
C22_RepresentativeIsFirst ==
    \A p \in Procs : pc[p] \in { "loop", "commit", "done" } =>
        \A f \in RunRows(p) : \E j \in 1..Len(entries[p]) :
            LET e == entries[p][j] IN
            /\ e.file_hash # None
            /\ f.id = uuid5(e.file_hash[1])
            /\ \A k \in 1..(j - 1) : entries[p][k].file_hash # e.file_hash
            /\ f.name = e.name
            /\ f.path = e.path
            /\ f.size = e.size
            /\ f.last_modified = e.last_modified
            /\ f.sensitivity = classify(e.path)

\* a run has ended well with one LogicalFile for two observations of the
\* same hash whose paths the classifier labels differently
C22_Witness ==
    /\ pc[1] = "done"
    /\ Cardinality(files) = 1
    /\ Len(entries[1]) = 2
    /\ entries[1][1].file_hash = entries[1][2].file_hash
    /\ classify(entries[1][1].path) = "SENSITIVE"
    /\ classify(entries[1][2].path) = "INSENSITIVE"

\* the position in handler p's entries of the observation e
IndexOf(p, e) == CHOOSE j \in 1..Len(entries[p]) : entries[p][j] = e

\* C23: group_by_hash partitions the observations: each observation is in
\* exactly one group, the one keyed by its own hash; keys are distinct and no
\* group is empty; the group sizes add up to the number of observations; and
\* the items of a group are in the order in which they were collected.
C23_GroupByHashPartitions ==
    \A p \in Procs : pc[p] \in { "delFiles", "delLocs", "loop", "commit", "done" } =>
        /\ \A j \in 1..Len(entries[p]) :
              /\ Cardinality(GroupOf(p, entries[p][j])) = 1
              /\ \A g \in GroupOf(p, entries[p][j]) :
                    groups[p][g].file_hash = entries[p][j].file_hash
        /\ \A g \in 1..Len(groups[p]) :
              /\ Len(groups[p][g].items) >= 1
              /\ \A a \in 1..Len(groups[p][g].items) :
                    /\ groups[p][g].items[a] \in Range(entries[p])
                    /\ groups[p][g].items[a].file_hash = groups[p][g].file_hash
              /\ \A a, b \in 1..Len(groups[p][g].items) : a < b =>
                    IndexOf(p, groups[p][g].items[a]) < IndexOf(p, groups[p][g].items[b])
              /\ \A h \in 1..Len(groups[p]) :
                    groups[p][g].file_hash = groups[p][h].file_hash => g = h
        /\ SumSizes(groups[p]) = Len(entries[p])

\* three observations have been grouped into a group of two, whose members
\* were collected first and last, and a group of one
C23_Witness ==
    /\ pc[1] = "delFiles"
    /\ Len(entries[1]) = 3
    /\ Len(groups[1]) = 2
    /\ entries[1][1].file_hash = entries[1][3].file_hash
    /\ entries[1][1].file_hash # entries[1][2].file_hash
    /\ groups[1][1].items = << entries[1][1], entries[1][3] >>

\* the calls handler p's run made to the classifier for the hash h
CallsFor(p, h) == { k \in 1..Len(classified[p]) : classified[p][k].file_hash = h }

\* C24: a run calls the classifier once per group it has processed; after a
\* successful run there is exactly one call per distinct hash observed, made
\* with the path of the group's first observation, and every LogicalFile
\* carries the label of the one call made for its hash.
C24_ClassifiedOncePerGroup ==
    \A p \in Procs :
        /\ pc[p] \in { "loop", "commit", "done" } => Len(classified[p]) = gi[p]
        /\ pc[p] = "done" =>
              /\ Len(classified[p]) = Cardinality(ObservedHashes(p))
              /\ \A g \in 1..Len(groups[p]) :
                    /\ Cardinality(CallsFor(p, groups[p][g].file_hash)) = 1
                    /\ \A k \in CallsFor(p, groups[p][g].file_hash) :
                          classified[p][k].path = groups[p][g].items[1].path
              /\ \A f \in files : \E k \in 1..Len(classified[p]) :
                    /\ classified[p][k].file_hash # None
                    /\ f.id = uuid5(classified[p][k].file_hash[1])
                    /\ f.sensitivity = classify(classified[p][k].path)

\* a run over three observations of two hashes has ended well after two
\* calls to the classifier
C24_Witness ==
    /\ pc[1] = "done"
    /\ Len(entries[1]) = 3
    /\ Len(groups[1]) = 2
    /\ Len(classified[1]) = 2
    /\ Cardinality(files) = 2

\* C25: every observation carries a hash value: no entry, and no group key,
\* is the missing value, and identifier derivation never fails on one.
C25_HashNeverMissing ==
    \A p \in Procs :
        /\ \A i \in 1..Len(entries[p]) : entries[p][i].file_hash # None
        /\ \A g \in 1..Len(groups[p]) : groups[p][g].file_hash # None
        /\ failedAt[p] # "uuid5"

\* C26: in every committed state every FileLocation refers to a LogicalFile
\* that exists, whatever the handlers are doing: between the two delete_all
\* commits of a run, after a failed run, and while runs interleave.
C26_NoOrphanLocation ==
    \A l \in locs : l.file_id \in FileIds(files)

\* a run over a snapshot of two LogicalFiles and three FileLocations is
\* between its two delete_all commits
C26_Witness ==
    /\ pc[1] = "delLocs"
    /\ Cardinality(snapFiles[1]) = 2
    /\ Cardinality(snapLocs[1]) = 3
    /\ files = {}

\* the backends handler p's run has still to list
Unlisted(p) ==
    IF pc[p] = "list" THEN Len(Backends) - bi[p] + 1
    ELSE IF pc[p] = "file" THEN Len(Backends) - bi[p]
    ELSE 0

\* the most paths a listing returns
MaxListing == Cardinality(UNION { PathsOf(Backends[i]) : i \in 1..Len(Backends) }) + 1

\* the number of steps handler p's run can still take, at most
Remaining(p) ==
    IF pc[p] = "idle" THEN 0
    ELSE IF pc[p] \in { "done", "failed" } THEN 1
    ELSE IF pc[p] = "commit" THEN 2
    ELSE IF pc[p] = "loop" THEN 2 + (Len(groups[p]) - gi[p])
    ELSE LET n == Len(Backends) * MaxListing IN
         IF pc[p] = "delLocs" THEN 3 + n
         ELSE IF pc[p] = "delFiles" THEN 4 + n
         ELSE IF pc[p] = "group" THEN 5 + n
         ELSE IF pc[p] \in { "list", "file" }
              THEN 6 + n + Unlisted(p) * (MaxListing + 1) + Len(paths[p])
         ELSE 7 + n + (Len(Backends) + 1) * (MaxListing + 1)

\* C27: a run that has been triggered ends, with a count or with an error;
\* and no step of a run repeats or goes back: every step of a handler lowers
\* the number of steps its run can still take, and no step raises it.
C27_RunTerminates ==
    /\ \A p \in Procs : (pc[p] = "construct") ~> (pc[p] \in { "done", "failed" })
    /\ [][ /\ \A p \in Procs : pc[p] # "idle" => Remaining(p)' <= Remaining(p)
           /\ \E p \in Procs :
                 \/ Remaining(p)' < Remaining(p)
                 \/ pc[p] = "idle" /\ pc'[p] = "construct" ]_vars

\* both handlers' runs have ended, one with a count and one with an error
C27_Witness ==
    /\ pc[1] = "done"
    /\ result[1] = Some(3)
    /\ pc[2] = "failed"

\* C28: when two interleaved runs over the same files have both ended well,
\* the committed store has one LogicalFile per observed hash and
\* backup_count + 1 FileLocations for each LogicalFile.
C28_InterleavedRunsKeepSnapshot ==
    (\A p \in Procs : pc[p] = "done") =>
        /\ \A p \in Procs :
              /\ FileIds(files) = ObservedIds(p)
              /\ Cardinality(files) = Cardinality(ObservedHashes(p))
        /\ \A f \in files : Cardinality(LocsOf(f.id)) = f.backup_count + 1

\* the position of backend b in self.backends
BackendIndex(b) == CHOOSE i \in 1..Len(Backends) : Backends[i] = b

\* C29: observations are collected backend by backend in the order Local,
\* Dropbox, FTPS, and the first item of every group comes from the earliest
\* backend among its items; when every backend was listed and every file
\* hashed, that is the earliest backend holding the content. A successful
\* run that follows a successful run over the same files, with the same
\* listings, writes every LogicalFile from the same representative.
C29_RepresentativeFromEarliestBackend ==
    \A p \in Procs : pc[p] \in { "delFiles", "delLocs", "loop", "commit", "done" } =>
        /\ \A i, j \in 1..Len(entries[p]) : i < j =>
              BackendIndex(entries[p][i].backend) <= BackendIndex(entries[p][j].backend)
        /\ \A g \in 1..Len(groups[p]) : \A a \in 1..Len(groups[p][g].items) :
              BackendIndex(groups[p][g].items[1].backend)
                 <= BackendIndex(groups[p][g].items[a].backend)
        /\ CleanScan(p) =>
              \A g \in 1..Len(groups[p]) :
                 \A s \in Holders(DataOf(groups[p][g].items[1])) :
                    BackendIndex(groups[p][g].items[1].backend) <= BackendIndex(s.backend)
        /\ (/\ pc[p] = "done"
            /\ CleanScan(p)
            /\ prevScan[p] = Some([world |-> world, clean |-> TRUE])
            /\ prevListing[p] = Some(Listing(p))) =>
              \A f \in files : \E g \in snapFiles[p] :
                 g.id = f.id /\ g.name = f.name /\ g.path = f.path /\ g.size = f.size

\* a second run over the same files and listings has ended well, with one
\* LogicalFile for content that two files of the first backend and a file
\* of the last backend hold
C29_Witness ==
    /\ pc[1] = "done"
    /\ CleanScan(1)
    /\ prevScan[1] = Some([world |-> world, clean |-> TRUE])
    /\ prevListing[1] = Some(Listing(1))
    /\ Len(entries[1]) = 3
    /\ entries[1][2].backend = "LocalStorageBackend"
    /\ entries[1][3].backend = "FTPSStorageBackend"
    /\ Cardinality(files) = 1
    /\ \A f \in files : f.path = entries[1][1].path

\* the routes that only read
ReadRoutes == { "/all-files", "/files" }

\* the step taken is one of handler p's
Stepped(p) ==
    \/ pc'[p] # pc[p]
    \/ bi'[p] # bi[p]
    \/ paths'[p] # paths[p]

\* C30: no step of a handler that serves GET /all-files or GET /files
\* changes a row of files or file_locations, or the id sequence: from the
\* arrival of the request to its answer, also while POST /sync is served.
C30_ReadRoutesKeepStore ==
    [][ \A p \in Procs : (Stepped(p) /\ req'[p] \in ReadRoutes) =>
            /\ files' = files
            /\ locs' = locs
            /\ locSeq' = locSeq ]_vars

\* GET /all-files has collected three observations and answered, over a
\* store of two LogicalFiles and three FileLocations that is still there
C30_Witness ==
    /\ pc[2] = "done"
    /\ req[2] = "/all-files"
    /\ Len(entries[2]) = 3
    /\ Cardinality(files) = 2
    /\ Cardinality(locs) = 3
    /\ files = snapFiles[2]

====
